---- MODULE Spec2Model ----
(***************************************************************************)
(* Model of the mobile-screenshotter server (src/server/server.js).        *)
(*                                                                         *)
(* server.js holds two programs back to back: the current server           *)
(* (lines 1-497: device probed once at startup, iOS through pymobiledevice3*)
(* and a lookup table) and the earlier libimobiledevice server (lines      *)
(* 499-759: device probed on every request, iOS resolution inferred from a *)
(* sampled screenshot).  The variable `variant` says which of the two runs.*)
(*                                                                         *)
(* A request handler is a sequence of awaited external commands.  pc[r]    *)
(* names the command request r is waiting for; the action for that label   *)
(* is the command's effect followed by the handler's synchronous code up   *)
(* to the next await (or to the response).                                 *)
(*                                                                         *)
(* Numbers: a JavaScript number that is a quotient of two integers is kept *)
(* as a reduced fraction <<n, d>> (scale = density / 160, rotation =       *)
(* degrees / 90).  Math.round is round-half-up on that exact quotient.     *)
(* Nullable values are sequences: <<>> is null, <<v>> is the value v.      *)
(***************************************************************************)
EXTENDS Integers, Sequences, FiniteSets, TLC

\* ------------------------------------------------------------------ bounds
\* Raw widths reported by `wm size` range over 1080 .. 1080 + WidthSpread
\* (consecutive widths, so that both sides of a .5 rounding boundary occur).
WidthSpread == 1

\* --------------------------------------------------------------- constants
BaselineDensity == 160
DegreesPerTurn == 90
ScaleCutoff == 1100

Null == <<>>
Some(v) == <<v>>

\* ------------------------------------------------------------- arithmetic
RECURSIVE GCD(_, _)
GCD(a, b) == IF b = 0 THEN a ELSE GCD(b, a % b)

\* The JavaScript quotient n / d (d > 0) as a reduced fraction.
Quot(n, d) == LET g == GCD(n, d) IN <<n \div g, d \div g>>

\* x / q for an integer x and a fraction q > 0.
DivBy(x, q) == Quot(x * q[2], q[1])

\* Math.round of a non-negative fraction: nearest integer, halves go up.
MathRound(q) == (2 * q[1] + q[2]) \div (2 * q[2])

\* ------------------------------------------------------- iPhoneSpecs table
iPhoneSpecs ==
     ("iPhone16,1" :> [name |-> "iPhone 15 Pro", width |-> 1179, height |-> 2556, scale |-> 3])
  @@ ("iPhone16,2" :> [name |-> "iPhone 15 Pro Max", width |-> 1290, height |-> 2796, scale |-> 3])
  @@ ("iPhone15,4" :> [name |-> "iPhone 15 Plus", width |-> 1290, height |-> 2796, scale |-> 3])
  @@ ("iPhone15,5" :> [name |-> "iPhone 15", width |-> 1179, height |-> 2556, scale |-> 3])
  @@ ("iPhone15,2" :> [name |-> "iPhone 14 Pro", width |-> 1179, height |-> 2556, scale |-> 3])
  @@ ("iPhone15,3" :> [name |-> "iPhone 14 Pro Max", width |-> 1290, height |-> 2796, scale |-> 3])
  @@ ("iPhone14,7" :> [name |-> "iPhone 14", width |-> 1170, height |-> 2532, scale |-> 3])
  @@ ("iPhone14,8" :> [name |-> "iPhone 14 Plus", width |-> 1284, height |-> 2778, scale |-> 3])
  @@ ("iPhone14,2" :> [name |-> "iPhone 13 Pro", width |-> 1170, height |-> 2532, scale |-> 3])
  @@ ("iPhone14,3" :> [name |-> "iPhone 13 Pro Max", width |-> 1284, height |-> 2778, scale |-> 3])
  @@ ("iPhone13,2" :> [name |-> "iPhone 12", width |-> 1170, height |-> 2532, scale |-> 3])
  @@ ("iPhone13,3" :> [name |-> "iPhone 12 Pro", width |-> 1170, height |-> 2532, scale |-> 3])
  @@ ("iPhone13,4" :> [name |-> "iPhone 12 Pro Max", width |-> 1284, height |-> 2778, scale |-> 3])

KnownModels == DOMAIN iPhoneSpecs

\* A resolution record as the handlers build it.  estimated = FALSE stands
\* for a body without an `estimated` field.
Record(pw, ph, lw, lh, density, scale, rotation, isLandscape) ==
  [ success |-> TRUE,
    physical |-> [width |-> pw, height |-> ph],
    logical |-> [width |-> lw, height |-> lh],
    density |-> density, scale |-> scale, rotation |-> rotation,
    isLandscape |-> isLandscape, estimated |-> FALSE ]

\* getIOSResolution with the table lookup lost: every model gets the fallback.
getIOSResolution_AlwaysFallback(productType) ==
  [ physical |-> [width |-> 1179, height |-> 2556],
    logical |-> [width |-> 393, height |-> 852],
    scale |-> 3 ]

\* getIOSResolution(productType); productType is Null when the stored device
\* entry has no ProductType.
getIOSResolution(productType) ==
  IF productType = Null \/ productType[1] \notin KnownModels
  THEN [ physical |-> [width |-> 1179, height |-> 2556],
         logical |-> [width |-> 393, height |-> 852],
         scale |-> 3 ]
  ELSE LET specs == iPhoneSpecs[productType[1]] IN
       [ physical |-> [width |-> specs.width, height |-> specs.height],
         logical |-> [width |-> MathRound(Quot(specs.width, specs.scale)),
                      height |-> MathRound(Quot(specs.height, specs.scale))],
         scale |-> specs.scale ]


\* An integer as a fraction.
Whole(n) == <<n, 1>>

\* ResolutionAndroid with the logical size computed before the swap.
ResolutionAndroid_LogicalBeforeSwap(w, h, density, rotation) ==
  LET isLandscape == (rotation = Whole(1) \/ rotation = Whole(3))
      scale == Quot(density, BaselineDensity)
  IN Record(IF isLandscape THEN h ELSE w, IF isLandscape THEN w ELSE h,
            MathRound(DivBy(w, scale)), MathRound(DivBy(h, scale)),
            density, scale, rotation, isLandscape)

\* GET /resolution, android branch after the three queries: swap for
\* landscape, then scale and logical size.  rotation is degrees / 90.
ResolutionAndroid(w, h, density, rotation) ==
  LET isLandscape == (rotation = Whole(1) \/ rotation = Whole(3))
      physicalWidth == IF isLandscape THEN h ELSE w
      physicalHeight == IF isLandscape THEN w ELSE h
      scale == Quot(density, BaselineDensity)
      logicalWidth == MathRound(DivBy(physicalWidth, scale))
      logicalHeight == MathRound(DivBy(physicalHeight, scale))
  IN Record(physicalWidth, physicalHeight, logicalWidth, logicalHeight,
            density, scale, rotation, isLandscape)

\* GET /resolution, ios branch of the current server: table lookup only.
ResolutionIOS(productType) ==
  LET resolutionInfo == getIOSResolution(productType) IN
  Record(resolutionInfo.physical.width, resolutionInfo.physical.height,
         resolutionInfo.logical.width, resolutionInfo.logical.height,
         resolutionInfo.scale * 160, Whole(resolutionInfo.scale), Whole(0), FALSE)

\* ResolutionSampled with the cutoff at 1200.
ResolutionSampled_Cutoff1200(width, height) ==
  LET scale == IF width > 1200 THEN 3 ELSE 2
  IN Record(width, height, MathRound(Quot(width, scale)),
            MathRound(Quot(height, scale)),
            scale * 160, Whole(scale), Whole(0), width > height)

\* GET /resolution, ios branch of the libimobiledevice server: the record
\* inferred from the sampled screenshot's pixel size.
ResolutionSampled(width, height) ==
  LET scale == IF width > ScaleCutoff THEN 3 ELSE 2
      logicalWidth == MathRound(Quot(width, scale))
      logicalHeight == MathRound(Quot(height, scale))
  IN Record(width, height, logicalWidth, logicalHeight,
            scale * 160, Whole(scale), Whole(0), width > height)

\* ---------------------------------------------------------------- responses
NoResponse ==
  [ status |-> 0, kind |-> "none", connected |-> Null, error |-> Null,
    message |-> Null, image |-> 0, format |-> "", resolution |-> Null ]

\* res.status(status).json({connected, error, message, ...}): the answers of
\* GET /device; error and message are Null when the body lacks the field.
JsonDevice(status, connected, error, message) ==
  [ NoResponse EXCEPT !.status = status, !.kind = "device",
                      !.connected = Some(connected), !.error = error,
                      !.message = message ]

\* res.status(status).json({error, message}); message is Null when the body
\* has no message field.
JsonError(status, error, message) ==
  [ NoResponse EXCEPT !.status = status, !.kind = "error",
                      !.error = Some(error), !.message = message ]

\* The no-device answer with a server-error status.
NoDeviceConnected_ServerError == JsonError(500, "No device connected", Null)

\* res.status(400).json({ error: 'No device connected' })
NoDeviceConnected == JsonError(400, "No device connected", Null)

\* res.json(<resolution record>)
JsonResolution(rec) ==
  [ NoResponse EXCEPT !.status = 200, !.kind = "resolution",
                      !.resolution = Some(rec) ]

\* res.json({success: true, image, format, resolution})
JsonScreenshot(image, format, resolutionData) ==
  [ NoResponse EXCEPT !.status = 200, !.kind = "screenshot", !.image = image,
                      !.format = format, !.resolution = resolutionData ]

\* -------------------------------------------------- what the tools can print
\* `adb shell wm size`: Null when /(\d+)x(\d+)/ finds nothing, else the two
\* numbers.  Portrait phones, a landscape-native tablet, a square panel and a
\* zero width are all strings the pattern accepts.
SizeOutputs ==
  {Null} \cup { Some(<<w, 1920>>) : w \in 1080 .. 1080 + WidthSpread }
         \cup { Some(<<1920, 1200>>), Some(<<1080, 1080>>), Some(<<0, 1920>>) }

\* `adb shell wm density`: Null when /density:\s*(\d+)/ finds nothing, else
\* the dpi the device reports, a positive number (320 = 2x, 420 = 2.625x).
DensityOutputs == {Null, Some(320), Some(420)}

\* `dumpsys window | grep mCurrentRotation`: Null when /ROTATION_(\d+)/ finds
\* nothing, else the digits.  The pattern takes any run of digits: the four
\* names Android gives a display rotation, and a number that is not a
\* multiple of 90.
RotationOutputs == {Null, Some(0), Some(90), Some(180), Some(270), Some(45)}

\* ProductType of the USB entry printed by `pymobiledevice3 usbmux list`:
\* every tabulated code, a code the table lacks, and an entry without one.
ProductTypes == { Some(m) : m \in KnownModels } \cup {Some("iPhone12,1"), Null}

\* Pixel size image-size reads from a sampled screenshot.
SampleSizes == { <<1170, 2532>>, <<750, 1334>>, <<1100, 2000>>, <<1101, 2000>>,
                 <<2532, 1170>> }

\* ------------------------------------------------------------------- state
Reqs == {1, 2}
TempPng == "temp_screenshot.png"
TempJpg == "temp_screenshot.jpg"
TempDetect == "temp_resolution_detect.png"
FileNames == {TempPng, TempJpg, TempDetect}

VARIABLES
  variant,          \* which server runs: "current" or "legacy" (the two
                    \* programs of server.js) or "adbonly" (part_003)
  server,           \* "starting" or "listening"
  iosRSDConfig,     \* [address, port], each Null or Some(string)
  connectedDevice,  \* [type, connected, id, info]
  localFiles,       \* temp file name -> 0 (absent), -1 (partial), r (capture of r)
  sdcard,           \* /sdcard/screenshot.png on the device, same coding
  pc,               \* request -> the command it awaits, "idle" or "done"
  loc,              \* request -> the handler's local variables
  cmds,             \* request -> the external commands it has issued, in order
  bootCmds,         \* the external commands issued during startup, in order
  probe,            \* what the two discovery tools answer (or would answer) to
                    \* the startup probe (index 0) and to request r's own probe
  response,         \* request -> the response it sent
  plugin            \* the Figma plugin (code.ts): the create-screenshot message
                    \* it handled last, the image decoded from it, the frame
                    \* made for it (frames of earlier messages stay on the
                    \* page and are not tracked), the selection, the latest
                    \* notification and the number of figma.notify calls
                    \* made for that message

serverVars == <<variant, server, iosRSDConfig, connectedDevice, localFiles, sdcard,
                pc, loc, cmds, bootCmds, probe, response>>

vars == <<serverVars, plugin>>

\* A message with no field set, and the plugin right after figma.showUI.
NoMessage ==
  [ type |-> "", imageData |-> Null, useLogicalSize |-> Null, resolutionData |-> Null ]

NoCanvas ==
  [ step |-> "idle", msg |-> NoMessage, image |-> Null, frame |-> Null,
    selection |-> Null, notification |-> Null, notified |-> 0 ]

NoProbe == [adb |-> "", ios |-> ""]

\* The no-device value with the id of an earlier device left in it.
Disconnected_StaleId ==
  [type |-> Null, connected |-> FALSE, id |-> Some("emulator-5554"), info |-> Null]

Disconnected == [type |-> Null, connected |-> FALSE, id |-> Null, info |-> Null]

NoLocals ==
  [ route |-> "", device |-> Disconnected, size |-> Null, density |-> Null,
    rotation |-> Null, finalFile |-> TempPng, image |-> 0 ]

\* process.env.X || null
EnvOrNull(v) == IF v = Null \/ v = Some("") THEN Null ELSE v

EnvAddresses == {Null, Some(""), Some("fd7b::1")}
EnvPorts == {Null, Some(""), Some("58783")}

Init ==
  /\ variant \in {"current", "legacy", "adbonly"}
  /\ server = "starting"
  /\ \E a \in EnvAddresses, p \in EnvPorts :
       iosRSDConfig = [address |-> EnvOrNull(a), port |-> EnvOrNull(p)]
  /\ connectedDevice = Disconnected
  /\ localFiles = [f \in FileNames |-> 0]
  /\ sdcard = 0
  /\ pc = [r \in Reqs |-> "idle"]
  /\ loc = [r \in Reqs |-> NoLocals]
  /\ cmds = [r \in Reqs |-> <<>>]
  /\ bootCmds = <<>>
  /\ probe = [i \in {0} \cup Reqs |-> NoProbe]
  /\ response = [r \in Reqs |-> NoResponse]
  /\ plugin = NoCanvas


\* ----------------------------------------------------------------- startup
AndroidId == "emulator-5554"
IOSId == "00008110-000A"

\* Outcome of `adb devices`: the command fails, lists no line with "\tdevice",
\* or lists one.
AdbOutcomes == {"fail", "none", "device"}

\* Outcome of `pymobiledevice3 usbmux list`: "fail" (the command fails or
\* JSON.parse throws), an empty array, entries none of which is USB, or a USB
\* entry.
UsbmuxOutcomes == {"fail", "empty", "network", "usb"}

\* detectAndStoreDevice with the two families tried in the other order.
detectAndStoreDevice_IOSFirst(adb, usbmux, productType) ==
  IF usbmux = "usb"
  THEN [type |-> Some("ios"), connected |-> TRUE, id |-> Some(IOSId),
        info |-> Some([Identifier |-> IOSId, ProductType |-> productType,
                       ConnectionType |-> "USB"])]
  ELSE IF adb = "device"
  THEN [type |-> Some("android"), connected |-> TRUE, id |-> Some(AndroidId),
        info |-> Null]
  ELSE Disconnected

\* detectAndStoreDevice: the value it stores.
detectAndStoreDevice(adb, usbmux, productType) ==
  IF adb = "device"
  THEN [type |-> Some("android"), connected |-> TRUE, id |-> Some(AndroidId),
        info |-> Null]
  ELSE IF usbmux = "usb"
  THEN [type |-> Some("ios"), connected |-> TRUE, id |-> Some(IOSId),
        info |-> Some([Identifier |-> IOSId, ProductType |-> productType,
                       ConnectionType |-> "USB"])]
  ELSE Disconnected

\* The commands detectAndStoreDevice issues.
detectCommands(adb) ==
  IF adb = "device" THEN <<"adb devices">>
  ELSE <<"adb devices", "pymobiledevice3 usbmux list">>

Truthy(v) == v # Null /\ v # Some("")

\* startServer -> promptForIOSConfig up to the prompt: probe, print the
\* device, and either ask for the RSD values or go on to app.listen.
PromptForIOSConfig ==
  /\ variant = "current"
  /\ server = "starting"
  /\ \E adb \in AdbOutcomes, usbmux \in UsbmuxOutcomes, productType \in ProductTypes,
        mfgOk \in BOOLEAN :
       LET device == detectAndStoreDevice(adb, usbmux, productType) IN
       /\ connectedDevice' = device
       /\ probe' = [probe EXCEPT ![0] = [adb |-> adb, ios |-> usbmux]]
       /\ bootCmds' = detectCommands(adb) \o
            (IF device.type = Some("android")
             THEN <<"adb shell getprop ro.product.manufacturer">> \o
                  (IF mfgOk THEN <<"adb shell getprop ro.product.model">> ELSE <<>>)
             ELSE <<>>)
       /\ server' = IF device.type = Some("ios") /\ ~Truthy(iosRSDConfig.address)
                    THEN "prompting" ELSE "listening"
  /\ UNCHANGED <<plugin, variant, iosRSDConfig, localFiles, sdcard, pc, loc, cmds, response>>

\* String.prototype.trim on the lines the user can type.
TypedLines == {"", "  ", "fd7b::1", " fd7b::1 ", "58783", "58783 "}
trim(line) ==
  CASE line = "  " -> ""
    [] line = " fd7b::1 " -> "fd7b::1"
    [] line = "58783 " -> "58783"
    [] OTHER -> line

\* The two rl.question callbacks: store the trimmed answers, then app.listen.
AnswerPrompt ==
  /\ server = "prompting"
  /\ \E address \in TypedLines, port \in TypedLines :
       iosRSDConfig' = [address |-> Some(trim(address)), port |-> Some(trim(port))]
  /\ server' = "listening"
  /\ UNCHANGED <<plugin, probe, variant, connectedDevice, localFiles, sdcard, pc, loc, cmds,
                 bootCmds, response>>

\* The libimobiledevice server: app.listen with no probe.
LegacyListen ==
  /\ variant = "legacy"
  /\ server = "starting"
  /\ server' = "listening"
  /\ UNCHANGED <<plugin, probe, variant, iosRSDConfig, connectedDevice, localFiles, sdcard,
                 pc, loc, cmds, bootCmds, response>>

\* The adb-only server: app.listen with no probe.
AdbOnlyListen ==
  /\ variant = "adbonly"
  /\ server = "starting"
  /\ server' = "listening"
  /\ UNCHANGED <<plugin, probe, variant, iosRSDConfig, connectedDevice, localFiles, sdcard,
                 pc, loc, cmds, bootCmds, response>>

\* ------------------------------------------------------- handler plumbing
\* A server that takes requests before app.listen.
CanStart_BeforeListen(r) == pc[r] \in {"idle", "done"}

\* A request reaches its handler once app.listen has run; the client sends
\* it when it has no request outstanding.
CanStart(r) == server = "listening" /\ pc[r] \in {"idle", "done"}

\* The device the handler works on: the stored one, or the one its own probe
\* returned.
Device(r) == IF variant = "current" THEN connectedDevice ELSE loc[r].device

\* Send resp and return; locals are what the handler's variables held.
Reply(r, resp, locals) ==
  /\ response' = [response EXCEPT ![r] = resp]
  /\ pc' = [pc EXCEPT ![r] = "done"]
  /\ loc' = [loc EXCEPT ![r] = locals]

Respond(r, resp) == Reply(r, resp, loc[r])

\* Issue cmd and wait for it at label.
Await(r, label, cmd) ==
  /\ pc' = [pc EXCEPT ![r] = label]
  /\ cmds' = [cmds EXCEPT ![r] = Append(@, cmd)]

ExecError == Some("Command failed")

\* ------------------------------------ the libimobiledevice server: probe
\* Outcome of `idevice_id -l`: the command fails, prints nothing, or prints
\* a device id.
IdeviceOutcomes == {"fail", "none", "device"}

\* detectDeviceType: the value it returns.
detectDeviceType(adb, idevice) ==
  IF adb = "device"
  THEN [type |-> Some("android"), connected |-> TRUE, id |-> Some(AndroidId),
        info |-> Null]
  ELSE IF idevice = "device"
  THEN [type |-> Some("ios"), connected |-> TRUE, id |-> Some(IOSId), info |-> Null]
  ELSE Disconnected

\* The commands detectDeviceType issues.
detectTypeCommands(adb) ==
  IF adb = "device" THEN <<"adb devices">> ELSE <<"adb devices", "idevice_id -l">>

\* ----------------------------------------------------------- GET /health
\* res.json({ status: 'ok', message: 'Server is running' })
JsonHealth ==
  [ NoResponse EXCEPT !.status = 200, !.kind = "health",
                      !.message = Some("Server is running") ]

\* GET /health, the same in the three servers: answers at once, runs nothing.
Health(r) ==
  /\ CanStart(r)
  /\ Reply(r, JsonHealth, [NoLocals EXCEPT !.route = "health"])
  /\ cmds' = [cmds EXCEPT ![r] = <<>>]
  /\ UNCHANGED <<plugin, probe, variant, server, iosRSDConfig, connectedDevice,
                 bootCmds, localFiles, sdcard>>

\* ----------------------------------------------------------- GET /device
\* The handler after the device is known (current: on entry; legacy: after
\* detectDeviceType).
DeviceBody(r, device, issued) ==
  LET started == [NoLocals EXCEPT !.route = "device", !.device = device] IN
  IF ~device.connected
  THEN /\ Reply(r, JsonDevice(200, FALSE, Null, Some("No device connected")), started)
       /\ cmds' = [cmds EXCEPT ![r] = issued]
  ELSE IF device.type = Some("android")
  THEN /\ pc' = [pc EXCEPT ![r] = "dev.mfg"]
       /\ cmds' = [cmds EXCEPT ![r] =
                     Append(issued, "adb shell getprop ro.product.manufacturer")]
       /\ loc' = [loc EXCEPT ![r] = started]
       /\ response' = [response EXCEPT ![r] = NoResponse]
  ELSE IF variant = "current"
  THEN /\ Reply(r, JsonDevice(200, TRUE, Null, Null), started)
       /\ cmds' = [cmds EXCEPT ![r] = issued]
  ELSE /\ pc' = [pc EXCEPT ![r] = "dev.info"]
       /\ cmds' = [cmds EXCEPT ![r] = Append(issued, "ideviceinfo -k DeviceName")]
       /\ loc' = [loc EXCEPT ![r] = started]
       /\ response' = [response EXCEPT ![r] = NoResponse]

\* GET /device arrives at the current server.
GetDevice(r) ==
  /\ variant = "current"
  /\ CanStart(r)
  /\ DeviceBody(r, connectedDevice, <<>>)
  /\ UNCHANGED <<plugin, probe, variant, server, iosRSDConfig, connectedDevice, bootCmds,
                 localFiles, sdcard>>

\* `getprop ro.product.manufacturer` returned: whether it worked or threw
\* (the inner catch keeps 'Unknown'), the handler asks for the model next.
DevMfg(r) ==
  /\ pc[r] = "dev.mfg"
  /\ Await(r, "dev.model", "adb shell getprop ro.product.model")
  /\ UNCHANGED <<plugin, probe, variant, server, iosRSDConfig, connectedDevice, bootCmds,
                 localFiles, sdcard, loc, response>>

\* DevModel writing the no-device value into the slot before it answers.
DevModel_ResetsDevice(r) ==
  /\ pc[r] = "dev.model"
  /\ Respond(r, JsonDevice(200, TRUE, Null, Null))
  /\ connectedDevice' = Disconnected
  /\ UNCHANGED <<plugin, probe, variant, server, iosRSDConfig, bootCmds,
                 localFiles, sdcard, cmds>>

\* `getprop ro.product.model` returned: either way the device is reported.
DevModel(r) ==
  /\ pc[r] = "dev.model"
  /\ Respond(r, JsonDevice(200, TRUE, Null, Null))
  /\ UNCHANGED <<plugin, probe, variant, server, iosRSDConfig, connectedDevice, bootCmds,
                 localFiles, sdcard, cmds>>

\* GET /device arrives at the libimobiledevice server: probe, then the body.
LegacyDevice(r) ==
  /\ variant = "legacy"
  /\ CanStart(r)
  /\ \E adb \in AdbOutcomes, idevice \in IdeviceOutcomes :
       /\ DeviceBody(r, detectDeviceType(adb, idevice), detectTypeCommands(adb))
       /\ probe' = [probe EXCEPT ![r] = [adb |-> adb, ios |-> idevice]]
  /\ UNCHANGED <<plugin, variant, server, iosRSDConfig, connectedDevice, bootCmds,
                 localFiles, sdcard>>

\* `ideviceinfo -k DeviceName` returned (libimobiledevice server).
DevInfo(r) ==
  /\ pc[r] = "dev.info"
  /\ \E ok \in BOOLEAN :
       IF ok
       THEN Respond(r, JsonDevice(200, TRUE, Null, Null))
       ELSE Respond(r, JsonDevice(500, FALSE, Some("Failed to get iOS device info"),
                                 ExecError))
  /\ UNCHANGED <<plugin, probe, variant, server, iosRSDConfig, connectedDevice, bootCmds,
                 localFiles, sdcard, cmds>>

\* GET /device of the adb-only server: `adb devices` inside the handler's try.
AdbOnlyDevice(r) ==
  /\ variant = "adbonly"
  /\ CanStart(r)
  /\ \E adb \in AdbOutcomes :
       LET device == IF adb = "device"
                     THEN [type |-> Some("android"), connected |-> TRUE,
                           id |-> Some(AndroidId), info |-> Null]
                     ELSE Disconnected
           started == [NoLocals EXCEPT !.route = "device", !.device = device]
       IN
       /\ probe' = [probe EXCEPT ![r] = [adb |-> adb, ios |-> ""]]
       /\ cmds' = [cmds EXCEPT ![r] = <<"adb devices">>]
       /\ CASE adb = "fail" ->
                 Reply(r, JsonDevice(500, FALSE, Some("ADB not found or not in PATH"),
                                     ExecError), started)
            [] adb = "none" ->
                 Reply(r, JsonDevice(200, FALSE, Null, Some("No device connected")),
                       started)
            [] adb = "device" ->
                 Reply(r, JsonDevice(200, TRUE, Null, Null), started)
  /\ UNCHANGED <<plugin, variant, server, iosRSDConfig, connectedDevice, bootCmds,
                 localFiles, sdcard>>

\* ------------------------------------------------------ GET /resolution
\* The handler after the device is known (current: on entry; legacy: after
\* detectDeviceType).
ResolutionBody(r, device, issued) ==
  LET started == [NoLocals EXCEPT !.route = "resolution", !.device = device] IN
  IF ~device.connected
  THEN /\ Reply(r, NoDeviceConnected, started)
       /\ cmds' = [cmds EXCEPT ![r] = issued]
       /\ UNCHANGED <<localFiles, sdcard>>
  ELSE IF device.type = Some("android")
  THEN /\ pc' = [pc EXCEPT ![r] = "res.size"]
       /\ cmds' = [cmds EXCEPT ![r] = Append(issued, "adb shell wm size")]
       /\ loc' = [loc EXCEPT ![r] = started]
       /\ response' = [response EXCEPT ![r] = NoResponse]
       /\ UNCHANGED <<localFiles, sdcard>>
  ELSE IF variant = "current"
  THEN /\ Reply(r, JsonResolution(ResolutionIOS(device.info[1].ProductType)), started)
       /\ cmds' = [cmds EXCEPT ![r] = issued]
       /\ UNCHANGED <<localFiles, sdcard>>
  ELSE /\ pc' = [pc EXCEPT ![r] = "res.sample"]
       /\ cmds' = [cmds EXCEPT ![r] = Append(issued, "idevicescreenshot")]
       /\ loc' = [loc EXCEPT ![r] = started]
       /\ response' = [response EXCEPT ![r] = NoResponse]
       /\ UNCHANGED <<localFiles, sdcard>>

\* GET /resolution arrives at the current server.
Resolution(r) ==
  /\ variant = "current"
  /\ CanStart(r)
  /\ ResolutionBody(r, connectedDevice, <<>>)
  /\ UNCHANGED <<plugin, probe, variant, server, iosRSDConfig, connectedDevice, bootCmds>>

\* `adb shell wm size` returns.
ResSize(r) ==
  /\ pc[r] = "res.size"
  /\ \E ok \in BOOLEAN, sizeMatch \in SizeOutputs :
       IF ~ok
       THEN /\ Respond(r, JsonError(500, "Failed to get screen resolution", ExecError))
            /\ UNCHANGED cmds
       ELSE IF sizeMatch = Null
       THEN /\ Respond(r, JsonError(500, "Failed to get screen resolution",
                                    Some("Could not parse screen size")))
            /\ UNCHANGED cmds
       ELSE /\ Await(r, "res.density", "adb shell wm density")
            /\ loc' = [loc EXCEPT ![r].size = sizeMatch]
            /\ UNCHANGED response
  /\ UNCHANGED <<plugin, probe, variant, server, iosRSDConfig, connectedDevice, localFiles,
                 sdcard, bootCmds>>

\* `adb shell wm density` returns.
ResDensity(r) ==
  /\ pc[r] = "res.density"
  /\ \E ok \in BOOLEAN, densityMatch \in DensityOutputs :
       IF ~ok
       THEN /\ Respond(r, JsonError(500, "Failed to get screen resolution", ExecError))
            /\ UNCHANGED cmds
       ELSE IF densityMatch = Null
       THEN /\ Respond(r, JsonError(500, "Failed to get screen resolution",
                                    Some("Could not parse screen density")))
            /\ UNCHANGED cmds
       ELSE /\ Await(r, "res.rotation", "adb shell dumpsys window | grep mCurrentRotation")
            /\ loc' = [loc EXCEPT ![r].density = densityMatch]
            /\ UNCHANGED response
  /\ UNCHANGED <<plugin, probe, variant, server, iosRSDConfig, connectedDevice, localFiles,
                 sdcard, bootCmds>>

\* Rotation with a quarter turn as the default.
Rotation_DefaultsToQuarterTurn(ok, rotationMatch) ==
  IF ok /\ rotationMatch # Null THEN Quot(rotationMatch[1], DegreesPerTurn)
  ELSE Whole(1)

\* The rotation the handler derives from the rotation query: 0 when the
\* command fails or prints no ROTATION_<digits>, else digits / 90.
Rotation(ok, rotationMatch) ==
  IF ok /\ rotationMatch # Null THEN Quot(rotationMatch[1], DegreesPerTurn)
  ELSE Whole(0)

\* The rotation query returns; the handler answers.
ResRotation(r) ==
  /\ pc[r] = "res.rotation"
  /\ \E ok \in BOOLEAN, rotationMatch \in RotationOutputs :
       Reply(r, JsonResolution(
               ResolutionAndroid(loc[r].size[1][1], loc[r].size[1][2],
                                 loc[r].density[1], Rotation(ok, rotationMatch))),
             [loc[r] EXCEPT !.rotation = IF ok THEN rotationMatch ELSE Null])
  /\ UNCHANGED <<plugin, probe, variant, server, iosRSDConfig, connectedDevice, localFiles,
                 sdcard, cmds, bootCmds>>


\* ------------------------------------------- the libimobiledevice server
\* GET /resolution arrives at the libimobiledevice server: probe, then the
\* handler body.
LegacyResolution(r) ==
  /\ variant = "legacy"
  /\ CanStart(r)
  /\ \E adb \in AdbOutcomes, idevice \in IdeviceOutcomes :
       /\ ResolutionBody(r, detectDeviceType(adb, idevice), detectTypeCommands(adb))
       /\ probe' = [probe EXCEPT ![r] = [adb |-> adb, ios |-> idevice]]
  /\ UNCHANGED <<plugin, variant, server, iosRSDConfig, connectedDevice, bootCmds>>

\* `idevicescreenshot` into temp_resolution_detect.png returns; image-size
\* reads the file; the handler deletes it and answers.
ResSample(r) ==
  /\ pc[r] = "res.sample"
  /\ \E ok \in BOOLEAN, left \in BOOLEAN, readable \in BOOLEAN, dimensions \in SampleSizes :
       IF ~ok
       THEN /\ localFiles' = [localFiles EXCEPT ![TempDetect] = IF left THEN -1 ELSE @]
            /\ Respond(r, JsonError(500, "Failed to get screen resolution", ExecError))
       ELSE IF ~readable
       THEN /\ localFiles' = [localFiles EXCEPT ![TempDetect] = r]
            /\ Respond(r, JsonError(500, "Failed to get screen resolution",
                                    Some("unsupported file type")))
       ELSE /\ localFiles' = [localFiles EXCEPT ![TempDetect] = 0]
            /\ Reply(r, JsonResolution(ResolutionSampled(dimensions[1], dimensions[2])),
                      [loc[r] EXCEPT !.size = Some(dimensions)])
  /\ UNCHANGED <<plugin, probe, variant, server, iosRSDConfig, connectedDevice, sdcard, cmds, bootCmds>>

\* ------------------------------------------------------- GET /screenshot
\* getIOSRSDParams().configured
\* getIOSRSDParams looking at the address only.
RSDConfigured_AddressOnly == Truthy(iosRSDConfig.address)

\* getIOSRSDParams().configured
RSDConfigured == Truthy(iosRSDConfig.address) /\ Truthy(iosRSDConfig.port)

RSDInstructions == "iOS tunnel not configured. Please restart server to enter RSD values."

\* An exception leaves the async handler: nothing is sent, the request stays
\* unanswered (and the rejected promise is unhandled).
Escape(r, locals) ==
  /\ pc' = [pc EXCEPT ![r] = "escaped"]
  /\ loc' = [loc EXCEPT ![r] = locals]
  /\ response' = [response EXCEPT ![r] = NoResponse]

\* The catch block of /screenshot: delete temp_screenshot.png if it exists,
\* delete finalFile if it is another file and exists, answer 500.  Either
\* fs.unlinkSync can throw on a file that exists (failAt); nothing in the
\* catch block catches that.
ShotCatch(r, files, locals, message) ==
  \E failAt \in 0 .. 2 :
    CASE failAt = 1 /\ files[TempPng] # 0 ->
           /\ localFiles' = files
           /\ Escape(r, locals)
      [] failAt = 2 /\ locals.finalFile # TempPng /\ files[locals.finalFile] # 0 ->
           /\ localFiles' = [files EXCEPT ![TempPng] = 0]
           /\ Escape(r, locals)
      [] OTHER ->
           /\ localFiles' = [f \in FileNames |->
                               IF f = TempPng \/ f = locals.finalFile THEN 0
                               ELSE files[f]]
           /\ Reply(r, JsonError(500, "Failed to capture screenshot", message), locals)

\* The handler after the device is known.
ScreenshotBody(r, device, issued) ==
  LET started == [NoLocals EXCEPT !.route = "screenshot", !.device = device] IN
  IF ~device.connected
  THEN /\ Reply(r, NoDeviceConnected, started)
       /\ cmds' = [cmds EXCEPT ![r] = issued]
       /\ UNCHANGED <<localFiles, sdcard>>
  ELSE IF device.type = Some("android")
  THEN /\ pc' = [pc EXCEPT ![r] = "shot.screencap"]
       /\ cmds' = [cmds EXCEPT ![r] = Append(issued, "adb shell screencap")]
       /\ loc' = [loc EXCEPT ![r] = started]
       /\ response' = [response EXCEPT ![r] = NoResponse]
       /\ UNCHANGED <<localFiles, sdcard>>
  ELSE IF variant = "current" /\ ~RSDConfigured
  THEN /\ ShotCatch(r, localFiles, started, Some(RSDInstructions))
       /\ cmds' = [cmds EXCEPT ![r] = issued]
       /\ UNCHANGED sdcard
  ELSE /\ pc' = [pc EXCEPT ![r] = "shot.ios"]
       /\ cmds' = [cmds EXCEPT ![r] =
                     Append(issued, IF variant = "current"
                                    THEN "pymobiledevice3 developer dvt screenshot"
                                    ELSE "idevicescreenshot")]
       /\ loc' = [loc EXCEPT ![r] = started]
       /\ response' = [response EXCEPT ![r] = NoResponse]
       /\ UNCHANGED <<localFiles, sdcard>>

\* GET /screenshot arrives at the current server.
Screenshot(r) ==
  /\ variant = "current"
  /\ CanStart(r)
  /\ ScreenshotBody(r, connectedDevice, <<>>)
  /\ UNCHANGED <<plugin, probe, variant, server, iosRSDConfig, connectedDevice, bootCmds>>

\* GET /screenshot arrives at the libimobiledevice server.
LegacyScreenshot(r) ==
  /\ variant = "legacy"
  /\ CanStart(r)
  /\ \E adb \in AdbOutcomes, idevice \in IdeviceOutcomes :
       /\ ScreenshotBody(r, detectDeviceType(adb, idevice), detectTypeCommands(adb))
       /\ probe' = [probe EXCEPT ![r] = [adb |-> adb, ios |-> idevice]]
  /\ UNCHANGED <<plugin, variant, server, iosRSDConfig, connectedDevice, bootCmds>>

\* The local PNG is in place (files): the current server starts the JPEG
\* transcode; the libimobiledevice server reads the PNG, deletes it and
\* answers.
AfterCapture(r, files) ==
  IF variant = "current"
  THEN /\ localFiles' = files
       /\ pc' = [pc EXCEPT ![r] = "shot.sharp"]
       /\ UNCHANGED <<loc, cmds, response>>
  ELSE \E readOk \in BOOLEAN :
         IF readOk /\ files[TempPng] # 0
         THEN /\ localFiles' = [files EXCEPT ![TempPng] = 0]
              /\ Respond(r, JsonScreenshot(files[TempPng], "png", Null))
              /\ UNCHANGED cmds
         ELSE /\ ShotCatch(r, files, loc[r], Some("read failed"))
              /\ UNCHANGED cmds

\* `adb shell screencap -p /sdcard/screenshot.png` returns.
ShotScreencap(r) ==
  /\ pc[r] = "shot.screencap"
  /\ \E ok \in BOOLEAN, left \in BOOLEAN :
       IF ok
       THEN /\ sdcard' = r
            /\ Await(r, "shot.pull", "adb pull")
            /\ UNCHANGED <<localFiles, loc, response>>
       ELSE /\ sdcard' = IF left THEN -1 ELSE sdcard
            /\ ShotCatch(r, localFiles, loc[r], ExecError)
            /\ UNCHANGED cmds
  /\ UNCHANGED <<plugin, probe, variant, server, iosRSDConfig, connectedDevice, bootCmds>>

\* `adb pull /sdcard/screenshot.png tempFile` returns; it cannot succeed
\* when the device file is gone.
ShotPull(r) ==
  /\ pc[r] = "shot.pull"
  /\ \E ok \in BOOLEAN :
       IF ok /\ sdcard # 0
       THEN /\ localFiles' = [localFiles EXCEPT ![TempPng] = sdcard]
            /\ Await(r, "shot.rm", "adb shell rm")
            /\ UNCHANGED <<loc, response>>
       ELSE /\ ShotCatch(r, localFiles, loc[r], ExecError)
            /\ UNCHANGED cmds
  /\ UNCHANGED <<plugin, probe, variant, server, iosRSDConfig, connectedDevice, sdcard, bootCmds>>

\* `adb shell rm /sdcard/screenshot.png` returns.
ShotRm(r) ==
  /\ pc[r] = "shot.rm"
  /\ \E ok \in BOOLEAN :
       IF ok /\ sdcard # 0
       THEN /\ sdcard' = 0
            /\ AfterCapture(r, localFiles)
       ELSE /\ ShotCatch(r, localFiles, loc[r], ExecError)
            /\ UNCHANGED <<sdcard, cmds>>
  /\ UNCHANGED <<plugin, probe, variant, server, iosRSDConfig, connectedDevice, bootCmds>>

\* The message the inner catch of the ios branch rethrows.
IOSCaptureMessage(message) ==
  IF message \in {"tunneld", "RemoteXPC"}
  THEN IF RSDConfigured
       THEN "Tunnel not running. Start it with: sudo pymobiledevice3 remote start-tunnel"
       ELSE RSDInstructions
  ELSE message

\* The iOS capture command (pymobiledevice3 dvt screenshot, or
\* idevicescreenshot in the libimobiledevice server) returns.
ShotIOS(r) ==
  /\ pc[r] = "shot.ios"
  /\ \E ok \in BOOLEAN, message \in {"Command failed", "tunneld", "RemoteXPC"} :
       IF ok
       THEN AfterCapture(r, [localFiles EXCEPT ![TempPng] = r])
       ELSE /\ ShotCatch(r, localFiles, loc[r],
                         Some(IF variant = "current" THEN IOSCaptureMessage(message)
                              ELSE "Command failed"))
            /\ UNCHANGED cmds
  /\ UNCHANGED <<plugin, probe, variant, server, iosRSDConfig, connectedDevice, sdcard, bootCmds>>


\* ScreenshotAndroid with isLandscape set but the swap forgotten.
ScreenshotAndroid_NoSwap(w, h, density, rotation) ==
  LET isLandscape == (rotation = Whole(1) \/ rotation = Whole(3))
      scale == Quot(density, BaselineDensity)
  IN Record(w, h, MathRound(DivBy(w, scale)), MathRound(DivBy(h, scale)),
            density, scale, rotation, isLandscape)

\* GET /screenshot, android resolution block: the record built once size,
\* density and rotation are known.
ScreenshotAndroid(w, h, density, rotation) ==
  LET isLandscape == (rotation = Whole(1) \/ rotation = Whole(3))
      physicalWidth == IF isLandscape THEN h ELSE w
      physicalHeight == IF isLandscape THEN w ELSE h
      scale == Quot(density, BaselineDensity)
  IN Record(physicalWidth, physicalHeight,
            MathRound(DivBy(physicalWidth, scale)),
            MathRound(DivBy(physicalHeight, scale)),
            density, scale, rotation, isLandscape)

\* GET /screenshot, ios resolution block.
ScreenshotIOS(productType) ==
  LET resInfo == getIOSResolution(productType) IN
  Record(resInfo.physical.width, resInfo.physical.height,
         resInfo.logical.width, resInfo.logical.height,
         resInfo.scale * 160, Whole(resInfo.scale), Whole(0), FALSE)

\* sharp(tempFile).jpeg().toFile(jpegFile) settles; then, with no await in
\* between: delete the PNG, read the JPEG, delete it, and either answer (ios)
\* or start the android resolution queries.  A failed transcode may have
\* created the JPEG already (left).  unlinkOk: fs.unlinkSync(tempFile) works;
\* readOk: reading the JPEG and deleting it work.
ShotSharp(r) ==
  /\ pc[r] = "shot.sharp"
  /\ \E ok \in BOOLEAN, left \in BOOLEAN, unlinkOk \in BOOLEAN, readOk \in BOOLEAN :
       IF ~(ok /\ localFiles[TempPng] > 0)
       THEN /\ ShotCatch(r, [localFiles EXCEPT ![TempJpg] = IF left THEN -1 ELSE @],
                         loc[r], Some("Input file is missing or corrupt"))
            /\ UNCHANGED cmds
       ELSE IF ~unlinkOk
       THEN /\ ShotCatch(r, [localFiles EXCEPT ![TempJpg] = localFiles[TempPng]],
                         loc[r], Some("unlink failed"))
            /\ UNCHANGED cmds
       ELSE IF ~readOk
       THEN /\ ShotCatch(r, [localFiles EXCEPT ![TempPng] = 0,
                                               ![TempJpg] = localFiles[TempPng]],
                         [loc[r] EXCEPT !.finalFile = TempJpg], Some("read failed"))
            /\ UNCHANGED cmds
       ELSE /\ localFiles' = [localFiles EXCEPT ![TempPng] = 0, ![TempJpg] = 0]
            /\ IF Device(r).type = Some("ios")
               THEN /\ Reply(r, JsonScreenshot(localFiles[TempPng], "jpeg",
                               Some(ScreenshotIOS(Device(r).info[1].ProductType))),
                            [loc[r] EXCEPT !.finalFile = TempJpg,
                                           !.image = localFiles[TempPng]])
                    /\ UNCHANGED cmds
               ELSE /\ Await(r, "shot.size", "adb shell wm size")
                    /\ loc' = [loc EXCEPT ![r].finalFile = TempJpg,
                                          ![r].image = localFiles[TempPng]]
                    /\ UNCHANGED response
  /\ UNCHANGED <<plugin, probe, variant, server, iosRSDConfig, connectedDevice, sdcard, bootCmds>>

\* `adb shell wm size` returns inside /screenshot: a failure ends the
\* resolution block with resolutionData = null.
ShotSize(r) ==
  /\ pc[r] = "shot.size"
  /\ \E ok \in BOOLEAN, sizeMatch \in SizeOutputs :
       IF ~ok
       THEN /\ Respond(r, JsonScreenshot(loc[r].image, "jpeg", Null))
            /\ UNCHANGED cmds
       ELSE /\ Await(r, "shot.density", "adb shell wm density")
            /\ loc' = [loc EXCEPT ![r].size = sizeMatch]
            /\ UNCHANGED response
  /\ UNCHANGED <<plugin, probe, variant, server, iosRSDConfig, connectedDevice, localFiles,
                 sdcard, bootCmds>>

\* ShotDensity with the inner try/catch lost: a failed density query reaches
\* the handler's catch block.
ShotDensity_FailsRequest(r) ==
  /\ pc[r] = "shot.density"
  /\ \E ok \in BOOLEAN, densityMatch \in DensityOutputs :
       IF ok /\ loc[r].size # Null /\ densityMatch # Null
       THEN /\ Await(r, "shot.rotation", "adb shell dumpsys window | grep mCurrentRotation")
            /\ loc' = [loc EXCEPT ![r].density = densityMatch]
            /\ UNCHANGED <<response, localFiles>>
       ELSE /\ ShotCatch(r, localFiles, loc[r], ExecError)
            /\ UNCHANGED cmds
  /\ UNCHANGED <<plugin, probe, variant, server, iosRSDConfig, connectedDevice, sdcard, bootCmds>>

\* `adb shell wm density` returns inside /screenshot.
ShotDensity(r) ==
  /\ pc[r] = "shot.density"
  /\ \E ok \in BOOLEAN, densityMatch \in DensityOutputs :
       IF ok /\ loc[r].size # Null /\ densityMatch # Null
       THEN /\ Await(r, "shot.rotation", "adb shell dumpsys window | grep mCurrentRotation")
            /\ loc' = [loc EXCEPT ![r].density = densityMatch]
            /\ UNCHANGED response
       ELSE /\ Reply(r, JsonScreenshot(loc[r].image, "jpeg", Null),
                      [loc[r] EXCEPT !.density = IF ok THEN densityMatch ELSE Null])
            /\ UNCHANGED cmds
  /\ UNCHANGED <<plugin, probe, variant, server, iosRSDConfig, connectedDevice, localFiles,
                 sdcard, bootCmds>>

\* The rotation query returns inside /screenshot; the handler answers.
ShotRotation(r) ==
  /\ pc[r] = "shot.rotation"
  /\ \E ok \in BOOLEAN, rotationMatch \in RotationOutputs :
       Reply(r, JsonScreenshot(loc[r].image, "jpeg",
               Some(ScreenshotAndroid(loc[r].size[1][1], loc[r].size[1][2],
                                      loc[r].density[1], Rotation(ok, rotationMatch)))),
             [loc[r] EXCEPT !.rotation = IF ok THEN rotationMatch ELSE Null])
  /\ UNCHANGED <<plugin, probe, variant, server, iosRSDConfig, connectedDevice, localFiles,
                 sdcard, cmds, bootCmds>>

\* execAsync is promisify(exec), called with no timeout option: a command
\* that never exits leaves the handler's await pending.
Hang(r) ==
  /\ pc[r] \notin {"idle", "done", "escaped", "hung"}
  /\ pc' = [pc EXCEPT ![r] = "hung"]
  /\ UNCHANGED <<plugin, probe, variant, server, iosRSDConfig, connectedDevice,
                 localFiles, sdcard, loc, cmds, bootCmds, response>>

\* ------------------------------------------------------------ specification
Step(r) ==
  \/ Hang(r)
  \/ Health(r)
  \/ GetDevice(r)
  \/ LegacyDevice(r)
  \/ AdbOnlyDevice(r)
  \/ DevMfg(r)
  \/ DevModel(r)
  \/ DevInfo(r)
  \/ Resolution(r)
  \/ LegacyResolution(r)
  \/ ResSize(r)
  \/ ResDensity(r)
  \/ ResRotation(r)
  \/ ResSample(r)
  \/ Screenshot(r)
  \/ LegacyScreenshot(r)
  \/ ShotScreencap(r)
  \/ ShotPull(r)
  \/ ShotRm(r)
  \/ ShotIOS(r)
  \/ ShotSharp(r)
  \/ ShotSize(r)
  \/ ShotDensity(r)
  \/ ShotRotation(r)

\* One client that sends its next request after the previous answer.
Next ==
  \/ PromptForIOSConfig
  \/ AnswerPrompt
  \/ LegacyListen
  \/ AdbOnlyListen
  \/ Step(1)

Spec == Init /\ [][Next]_vars

\* ------------------------------------------- two clients, current server
\* Express calls a route's async handler as soon as the request arrives, and
\* a handler suspended at `await execAsync(...)` gives the event loop back, so
\* the steps of two requests alternate freely.  The overlap specification
\* runs two clients against the current server; OverlapScope is the part of
\* the environment it explores (RSD values unset or both set, one tabulated
\* iPhone, one set of wm/dumpsys answers).
OverlapScope ==
  /\ iosRSDConfig \in {[address |-> Null, port |-> Null],
                       [address |-> Some("fd7b::1"), port |-> Some("58783")]}
  /\ connectedDevice.info \in
       {Null, Some([Identifier |-> IOSId, ProductType |-> Some("iPhone16,1"),
                    ConnectionType |-> "USB"])}
  /\ \A r \in Reqs :
       /\ loc[r].size \in {Null, Some(<<1080, 1920>>)}
       /\ loc[r].density \in {Null, Some(420)}
       /\ loc[r].rotation \in {Null, Some(90)}

InitOverlap == Init /\ variant = "current" /\ OverlapScope

NextOverlap ==
  \/ PromptForIOSConfig /\ OverlapScope'
  \/ AnswerPrompt /\ OverlapScope'
  \/ \E r \in Reqs : GetDevice(r) /\ OverlapScope'
  \/ \E r \in Reqs : DevMfg(r) /\ OverlapScope'
  \/ \E r \in Reqs : DevModel(r) /\ OverlapScope'
  \/ \E r \in Reqs : Resolution(r) /\ OverlapScope'
  \/ \E r \in Reqs : ResSize(r) /\ OverlapScope'
  \/ \E r \in Reqs : ResDensity(r) /\ OverlapScope'
  \/ \E r \in Reqs : ResRotation(r) /\ OverlapScope'
  \/ \E r \in Reqs : Screenshot(r) /\ OverlapScope'
  \/ \E r \in Reqs : ShotScreencap(r) /\ OverlapScope'
  \/ \E r \in Reqs : ShotPull(r) /\ OverlapScope'
  \/ \E r \in Reqs : ShotRm(r) /\ OverlapScope'
  \/ \E r \in Reqs : ShotIOS(r) /\ OverlapScope'
  \/ \E r \in Reqs : ShotSharp(r) /\ OverlapScope'
  \/ \E r \in Reqs : ShotSize(r) /\ OverlapScope'
  \/ \E r \in Reqs : ShotDensity(r) /\ OverlapScope'
  \/ \E r \in Reqs : ShotRotation(r) /\ OverlapScope'

SpecOverlap == InitOverlap /\ [][NextOverlap]_vars

\* --------------------------------------------------- the plugin (code.ts)
\* Pixel sizes image.getSizeAsync() can report for the posted bytes.
NativeSizes == { <<1080, 1920>>, <<540, 960>>, <<1179, 2556>> }

\* msg.imageData: bytes figma.createImage cannot decode, or an image.
Images ==
  { [valid |-> FALSE, width |-> 0, height |-> 0] } \cup
  { [valid |-> TRUE, width |-> s[1], height |-> s[2]] : s \in NativeSizes }

\* msg.resolutionData: the records the servers build.
ResolutionRecords ==
  { ResolutionAndroid(s[1][1], s[1][2], d[1], Rotation(TRUE, rot)) :
      s \in SizeOutputs \ {Null}, d \in DensityOutputs \ {Null},
      rot \in RotationOutputs } \cup
  { ResolutionIOS(productType) : productType \in ProductTypes } \cup
  { ResolutionSampled(s[1], s[2]) : s \in SampleSizes }

\* What the UI can post: any type, each optional field present or not.
Messages ==
  [ type : {"create-screenshot", "cancel"},
    imageData : {Null} \cup { Some(i) : i \in Images },
    useLogicalSize : {Null, Some(TRUE), Some(FALSE)},
    resolutionData : {Null} \cup { Some(rec) : rec \in ResolutionRecords } ]

\* figma.notify(text, {error})
Notify(text, error) == Some([text |-> text, error |-> error])

\* figma.ui.onmessage with the missing-data check returning silently.
OnMessage_SilentOnMissing ==
  /\ plugin.step = "idle"
  /\ \E msg \in Messages :
       IF msg.type # "create-screenshot"
       THEN UNCHANGED plugin
       ELSE IF msg.imageData = Null \/ msg.resolutionData = Null
       THEN plugin' = [NoCanvas EXCEPT !.msg = msg,
                         !.notification = plugin.notification]
       ELSE IF ~msg.imageData[1].valid
       THEN plugin' = [NoCanvas EXCEPT !.msg = msg, !.notified = 1,
                         !.notification = Notify("Failed to create screenshot", TRUE)]
       ELSE plugin' = [NoCanvas EXCEPT !.msg = msg, !.image = msg.imageData,
                                      !.step = "sized",
                                      !.notification = plugin.notification]
  /\ UNCHANGED serverVars

\* figma.ui.onmessage up to `await image.getSizeAsync()`; a create-screenshot
\* message starts from an empty record of what was made for it.
OnMessage ==
  /\ plugin.step = "idle"
  /\ \E msg \in Messages :
       IF msg.type # "create-screenshot"
       THEN UNCHANGED plugin
       ELSE IF msg.imageData = Null \/ msg.resolutionData = Null
       THEN plugin' = [NoCanvas EXCEPT !.msg = msg, !.notified = 1,
                         !.notification = Notify("Error: Missing screenshot data", TRUE)]
       ELSE IF ~msg.imageData[1].valid
       THEN plugin' = [NoCanvas EXCEPT !.msg = msg, !.notified = 1,
                         !.notification = Notify("Failed to create screenshot", TRUE)]
       ELSE plugin' = [NoCanvas EXCEPT !.msg = msg, !.image = msg.imageData,
                                      !.step = "sized",
                                      !.notification = plugin.notification]
  /\ UNCHANGED serverVars

\* msg.useLogicalSize ?? true
UseLogicalSize(msg) ==
  IF msg.useLogicalSize = Null THEN TRUE ELSE msg.useLogicalSize[1]

\* frameWidth, frameHeight with the toggle ignored: always the physical size.
FrameSize_IgnoresToggle(resolutionData, useLogicalSize) ==
  [ width |-> resolutionData.physical.width,
    height |-> resolutionData.physical.height ]

\* frameWidth, frameHeight as createFramedScreenshot chooses them.
FrameSize(resolutionData, useLogicalSize) ==
  [ width |-> IF useLogicalSize THEN resolutionData.logical.width
              ELSE resolutionData.physical.width,
    height |-> IF useLogicalSize THEN resolutionData.logical.height
               ELSE resolutionData.physical.height ]

\* figma.createFrame(): a 100 x 100 frame on the current page, not yet put
\* where the screenshot goes.
NewFrame ==
  [ width |-> 100, height |-> 100, children |-> <<>>, parent |-> "PAGE",
    placed |-> FALSE ]

\* createFramedScreenshot with the rectangle left at the image's own size.
createFramedScreenshot_NativeRect ==
  /\ plugin.step = "sized"
  /\ \E inSection \in BOOLEAN, thrown \in BOOLEAN :
       LET size == FrameSize(plugin.msg.resolutionData[1], UseLogicalSize(plugin.msg))
           imageRect == [ name |-> "Screenshot Image",
                          width |-> plugin.image[1].width,
                          height |-> plugin.image[1].height,
                          fill |-> [type |-> "IMAGE", imageHash |-> plugin.image[1],
                                    scaleMode |-> "FILL"],
                          constraints |-> [horizontal |-> "STRETCH",
                                           vertical |-> "STRETCH"] ]
           frame == [ width |-> size.width, height |-> size.height,
                      children |-> <<imageRect>>,
                      parent |-> IF inSection THEN "SECTION" ELSE "PAGE",
                      placed |-> TRUE ]
       IN IF thrown
          THEN plugin' = [plugin EXCEPT !.step = "idle", !.frame = Some(NewFrame),
                            !.notified = @ + 1,
                            !.notification = Notify("Failed to create screenshot", TRUE)]
          ELSE plugin' = [plugin EXCEPT !.step = "idle", !.frame = Some(frame),
                            !.selection = Some(frame), !.notified = @ + 1,
                            !.notification = Notify("Screenshot added to canvas!", FALSE)]
  /\ UNCHANGED serverVars

\* createFramedScreenshot, called once getSizeAsync has resolved: a frame of
\* the chosen size holding one rectangle of the same size filled with the
\* image, put into the section under the viewport centre or else the page,
\* selected, and announced.  thrown: a Figma call after createFrame throws
\* (resize rejects a size below 0.01, for one); onmessage's catch block then
\* reports the failure and the new frame stays as createFrame made it.
createFramedScreenshot ==
  /\ plugin.step = "sized"
  /\ \E inSection \in BOOLEAN, thrown \in BOOLEAN :
       LET size == FrameSize(plugin.msg.resolutionData[1], UseLogicalSize(plugin.msg))
           imageRect == [ name |-> "Screenshot Image",
                          width |-> size.width, height |-> size.height,
                          fill |-> [type |-> "IMAGE", imageHash |-> plugin.image[1],
                                    scaleMode |-> "FILL"],
                          constraints |-> [horizontal |-> "STRETCH",
                                           vertical |-> "STRETCH"] ]
           frame == [ width |-> size.width, height |-> size.height,
                      children |-> <<imageRect>>,
                      parent |-> IF inSection THEN "SECTION" ELSE "PAGE",
                      placed |-> TRUE ]
       IN IF thrown
          THEN plugin' = [plugin EXCEPT !.step = "idle", !.frame = Some(NewFrame),
                            !.notified = @ + 1,
                            !.notification = Notify("Failed to create screenshot", TRUE)]
          ELSE plugin' = [plugin EXCEPT !.step = "idle", !.frame = Some(frame),
                            !.selection = Some(frame), !.notified = @ + 1,
                            !.notification = Notify("Screenshot added to canvas!", FALSE)]
  /\ UNCHANGED serverVars

NextPlugin ==
  \/ OnMessage
  \/ createFramedScreenshot

\* The plugin runs beside a server that has not been started with any RSD
\* environment value; nothing the plugin does reads the server's state.
InitPlugin ==
  /\ Init
  /\ variant = "current"
  /\ iosRSDConfig = [address |-> Null, port |-> Null]

SpecPlugin == InitPlugin /\ [][NextPlugin]_vars


\* ------------------------------------------------------- claim vocabulary
Done(r) == pc[r] = "done"
HasRecord(r) == response[r].resolution # Null
Rec(r) == response[r].resolution[1]
LastIssued(r) == IF cmds[r] = <<>> THEN "" ELSE cmds[r][Len(cmds[r])]
IsAndroid(r) == Device(r).type = Some("android")
IsIOS(r) == Device(r).type = Some("ios")
RotationCommand == "adb shell dumpsys window | grep mCurrentRotation"
Dim(w, h) == [width |-> w, height |-> h]

\* C1: every resolution record a request returns, whichever path built it,
\* has logical.width = round(physical.width / scale) and logical.height =
\* round(physical.height / scale).
C1_LogicalIsRoundedPhysical ==
  \A r \in Reqs :
    Done(r) /\ HasRecord(r) =>
      /\ Rec(r).logical.width = MathRound(DivBy(Rec(r).physical.width, Rec(r).scale))
      /\ Rec(r).logical.height = MathRound(DivBy(Rec(r).physical.height, Rec(r).scale))

\* C1 witness: an Android record returned in landscape at density 420, where
\* the quotient is not an integer and the swap has been applied.
C1_Witness ==
  \E r \in Reqs :
    /\ Done(r) /\ HasRecord(r) /\ IsAndroid(r)
    /\ Rec(r).isLandscape
    /\ Rec(r).scale = Quot(420, 160)
    /\ Rec(r).physical = Dim(1920, 1081)
    /\ Rec(r).logical = Dim(731, 412)

\* C2 (as claimed): in every returned record isLandscape implies
\* physical.width > physical.height.
C2_LandscapeIsWider ==
  \A r \in Reqs :
    Done(r) /\ HasRecord(r) /\ Rec(r).isLandscape =>
      Rec(r).physical.width > Rec(r).physical.height

\* C3: for a model code in the lookup table, /resolution of the current
\* server returns the tabulated physical size and scale with logical =
\* round(physical / scale), having issued no external command; iPhone15,2
\* gives 1179x2556, scale 3, 393x852.
C3_LookupHit ==
  \A r \in Reqs :
    ( /\ variant = "current" /\ Done(r) /\ IsIOS(r)
      /\ response[r].kind = "resolution"
      /\ connectedDevice.info[1].ProductType # Null
      /\ connectedDevice.info[1].ProductType[1] \in KnownModels )
    => LET code == connectedDevice.info[1].ProductType[1]
           entry == iPhoneSpecs[code]
       IN /\ Rec(r).physical = Dim(entry.width, entry.height)
          /\ Rec(r).scale = Whole(entry.scale)
          /\ Rec(r).logical = Dim(MathRound(Quot(entry.width, entry.scale)),
                                  MathRound(Quot(entry.height, entry.scale)))
          /\ cmds[r] = <<>>
          /\ code = "iPhone15,2" =>
               /\ Rec(r).physical = Dim(1179, 2556)
               /\ Rec(r).scale = Whole(3)
               /\ Rec(r).logical = Dim(393, 852)

\* C3 witness: /resolution has answered for a stored iPhone14,7.
C3_Witness ==
  \E r \in Reqs :
    /\ variant = "current" /\ Done(r) /\ IsIOS(r)
    /\ response[r].kind = "resolution"
    /\ connectedDevice.info[1].ProductType = Some("iPhone14,7")
    /\ Rec(r).physical = Dim(1170, 2532)

\* The request resolved the resolution of an iOS device whose model code is
\* absent or not tabulated (the libimobiledevice server never learns one).
UnknownIOSResolved(r) ==
  /\ Done(r) /\ IsIOS(r)
  /\ loc[r].route = "resolution"
  /\ variant = "current" =>
       \/ connectedDevice.info[1].ProductType = Null
       \/ connectedDevice.info[1].ProductType[1] \notin KnownModels

SampleCaptures(r) ==
  Cardinality({ i \in 1 .. Len(cmds[r]) : cmds[r][i] = "idevicescreenshot" })

\* C4 (as claimed): resolving an iOS device with an absent or unknown model
\* code issues exactly one sample capture and returns a record flagged
\* estimated whose scale is 2 or 3 by the width threshold.
C4_UnknownModelIsSampled ==
  \A r \in Reqs :
    UnknownIOSResolved(r) /\ response[r].status = 200 =>
      /\ SampleCaptures(r) = 1
      /\ Rec(r).estimated
      /\ Rec(r).scale = Whole(IF Rec(r).physical.width > ScaleCutoff THEN 3 ELSE 2)

\* The request answered from a sampled screenshot of the given pixel size.
Sampled(r) ==
  /\ Done(r) /\ variant = "legacy" /\ IsIOS(r)
  /\ loc[r].route = "resolution"
  /\ response[r].status = 200

AndroidRecordWith(r, degrees) ==
  /\ Done(r) /\ IsAndroid(r) /\ HasRecord(r)
  /\ loc[r].rotation \in { Some(d) : d \in degrees }

\* C6: with rotation 1 or 3 the record's physical size is the raw size
\* swapped, isLandscape is true and logical is computed from the swapped
\* size; with rotation 0 or 2 nothing is swapped and isLandscape is false.
C6_QuarterTurnSwaps ==
  \A r \in Reqs :
    LET w == loc[r].size[1][1]
        h == loc[r].size[1][2]
    IN /\ AndroidRecordWith(r, {90, 270}) =>
            /\ Rec(r).rotation \in {Whole(1), Whole(3)}
            /\ Rec(r).physical = Dim(h, w)
            /\ Rec(r).isLandscape
            /\ Rec(r).logical = Dim(MathRound(DivBy(h, Rec(r).scale)),
                                    MathRound(DivBy(w, Rec(r).scale)))
       /\ AndroidRecordWith(r, {0, 180}) =>
            /\ Rec(r).rotation \in {Whole(0), Whole(2)}
            /\ Rec(r).physical = Dim(w, h)
            /\ ~Rec(r).isLandscape

\* C6 witness: a record returned for raw 1080x1920 at ROTATION_270.
C6_Witness ==
  \E r \in Reqs :
    /\ AndroidRecordWith(r, {270})
    /\ loc[r].size = Some(<<1080, 1920>>)
    /\ Rec(r).physical = Dim(1920, 1080)

\* The Android request ended at the density query with no density parsed
\* (the command failed or printed nothing the pattern accepts).
DensityMissing(r) ==
  /\ Done(r) /\ IsAndroid(r)
  /\ LastIssued(r) = "adb shell wm density"
  /\ loc[r].density = Null

\* C7 (as claimed): a missing density signal makes the request fail with an
\* error and return no record, in /resolution and in /screenshot.
C7_MissingDensityFailsRequest ==
  \A r \in Reqs :
    DensityMissing(r) =>
      /\ response[r].kind = "error" /\ response[r].status >= 400
      /\ ~HasRecord(r)

\* C7 (amended): a missing density signal never yields a record; /resolution
\* answers 500 with an error, /screenshot still answers 200 with the image
\* and resolution null.
C7_MissingDensityGivesNoRecord ==
  \A r \in Reqs :
    DensityMissing(r) =>
      /\ ~HasRecord(r)
      /\ loc[r].route = "resolution" =>
           response[r].kind = "error" /\ response[r].status = 500
      /\ loc[r].route = "screenshot" =>
           /\ response[r].kind = "screenshot" /\ response[r].status = 200
           /\ response[r].image > 0

\* C7 witness: /screenshot has answered after its density query failed.
C7_Witness ==
  \E r \in Reqs :
    /\ DensityMissing(r)
    /\ loc[r].route = "screenshot"
    /\ loc[r].size # Null

\* The Android request got past the rotation query with no rotation parsed.
RotationMissing(r) ==
  /\ Done(r) /\ IsAndroid(r)
  /\ LastIssued(r) = RotationCommand
  /\ loc[r].rotation = Null

\* C8: a rotation query that fails or prints nothing matching is tolerated:
\* the request succeeds with rotation 0, isLandscape false and the raw size
\* unswapped.
C8_MissingRotationTolerated ==
  \A r \in Reqs :
    RotationMissing(r) =>
      /\ response[r].status = 200 /\ HasRecord(r)
      /\ Rec(r).rotation = Whole(0)
      /\ ~Rec(r).isLandscape
      /\ Rec(r).physical = Dim(loc[r].size[1][1], loc[r].size[1][2])

\* C8 witness: /screenshot has answered for the landscape-native tablet
\* after its rotation query gave nothing.
C8_Witness ==
  \E r \in Reqs :
    /\ RotationMissing(r)
    /\ loc[r].route = "screenshot"
    /\ loc[r].size = Some(<<1920, 1200>>)

\* C9 (as claimed): a parsed width or height of zero gives an error response
\* and never a success record carrying those dimensions.
C9_ZeroSizeIsError ==
  \A r \in Reqs :
    ( /\ Done(r) /\ loc[r].size # Null
      /\ (loc[r].size[1][1] <= 0 \/ loc[r].size[1][2] <= 0) )
    => /\ ~HasRecord(r)
       /\ loc[r].route = "resolution" => response[r].status >= 400

\* C10 (as claimed): once a request has returned, none of the local temp
\* files exists.
C10_NoTempFileLeft ==
  \A r \in Reqs : Done(r) => \A f \in FileNames : localFiles[f] = 0


HasIssued(r, cmd) == \E i \in 1 .. Len(cmds[r]) : cmds[r][i] = cmd

\* C11 (as claimed): when the Android capture sequence fails after the
\* on-device file was created, both /sdcard/screenshot.png and the local temp
\* file are absent once the request has returned.
C11_FailedCaptureLeavesNothing ==
  \A r \in Reqs :
    ( /\ Done(r) /\ IsAndroid(r)
      /\ loc[r].route = "screenshot"
      /\ response[r].status = 500
      /\ HasIssued(r, "adb pull") )
    => sdcard = 0 /\ localFiles[TempPng] = 0


\* Position of cmd in a command sequence, 0 when it is not there.
IndexOf(seq, cmd) ==
  IF \E i \in 1 .. Len(seq) : seq[i] = cmd
  THEN CHOOSE i \in 1 .. Len(seq) : seq[i] = cmd
  ELSE 0

\* C12: a probe asks for Android first and iOS second; when both an Android
\* and an iOS device answer, the device kept is the Android one and the iOS
\* discovery command is never issued.
C12_AndroidFirst ==
  /\ (variant = "current" /\ server # "starting") =>
       /\ IndexOf(bootCmds, "adb devices") = 1
       /\ IndexOf(bootCmds, "pymobiledevice3 usbmux list") \in {0, 2}
       /\ (probe[0].adb = "device" /\ probe[0].ios = "usb") =>
            /\ connectedDevice.type = Some("android")
            /\ IndexOf(bootCmds, "pymobiledevice3 usbmux list") = 0
  /\ \A r \in Reqs :
       (variant = "legacy" /\ pc[r] # "idle" /\ loc[r].route # "health") =>
         /\ IndexOf(cmds[r], "adb devices") = 1
         /\ IndexOf(cmds[r], "idevice_id -l") \in {0, 2}
         /\ (probe[r].adb = "device" /\ probe[r].ios = "device") =>
              /\ loc[r].device.type = Some("android")
              /\ IndexOf(cmds[r], "idevice_id -l") = 0

\* C12 witness: startup is over with both an Android and a USB iOS device
\* attached.
C12_Witness ==
  /\ variant = "current" /\ server = "listening"
  /\ probe[0] = [adb |-> "device", ios |-> "usb"]
  /\ connectedDevice.id = Some(AndroidId)


\* The probe the request relied on (the startup probe in the current server,
\* the request's own elsewhere) found no device: neither tool listed one.
ProbeFoundNothing(r) ==
  IF variant = "current"
  THEN probe[0].adb \in {"fail", "none"} /\ probe[0].ios \in {"fail", "empty", "network"}
  ELSE probe[r].adb \in {"fail", "none"} /\ probe[r].ios \in {"", "fail", "none"}

\* C13 (as claimed): a probe never fails; when a discovery tool is missing,
\* errors or prints nothing usable the probe yields "no device", and GET
\* /device answers HTTP 200 with connected: false.
C13_ProbeNeverFails ==
  /\ (variant = "current" /\ server # "starting" /\ ProbeFoundNothing(1)) =>
       connectedDevice = Disconnected
  /\ \A r \in Reqs :
       (Done(r) /\ loc[r].route = "device" /\ ProbeFoundNothing(r)) =>
         /\ loc[r].device = Disconnected
         /\ response[r].status = 200
         /\ response[r].connected = Some(FALSE)


DiscoveryCommands == {"adb devices", "idevice_id -l", "pymobiledevice3 usbmux list"}

C15_FailuresCarryErrorAndMessage ==
  \A r \in Reqs :
    (Done(r) /\ response[r].status >= 400) =>
      response[r].error # Null /\ response[r].message # Null


\* C16 (as claimed): every failure of an external command or of temp-file I/O
\* during a request is caught and answered with an error response; no handler
\* lets an exception escape, failures inside the error path's cleanup included.
C16_NoExceptionEscapes ==
  \A r \in Reqs : pc[r] # "escaped"


\* A handler of request r has started and has neither answered nor died.
InFlight(r) == pc[r] \notin {"idle", "done", "escaped"}

\* C17 (as claimed): requests are processed one at a time; a request runs to
\* completion before any step of the next one executes, so at no moment are
\* two requests both between their first step and their answer.
C17_OneRequestAtATime ==
  \A r1 \in Reqs, r2 \in Reqs :
    r1 # r2 => ~(InFlight(r1) /\ InFlight(r2))


\* The latest message made the plugin put a framed screenshot on the canvas.
Framed ==
  /\ plugin.step = "idle"
  /\ plugin.notification = Notify("Screenshot added to canvas!", FALSE)

\* C18: the frame's width and height are the record's logical size when
\* useLogicalSize is true (or absent) and its physical size otherwise, and the
\* image rectangle has exactly the frame's size whatever the image's own
\* pixel dimensions are.
C18_FrameAndImageSize ==
  Framed =>
    LET data == plugin.msg.resolutionData[1]
        frame == plugin.frame[1]
        imageRect == frame.children[1]
        chosen == IF plugin.msg.useLogicalSize = Some(FALSE)
                  THEN data.physical ELSE data.logical
    IN /\ frame.width = chosen.width
       /\ frame.height = chosen.height
       /\ Len(frame.children) = 1
       /\ imageRect.width = frame.width
       /\ imageRect.height = frame.height

\* C18 witness: a frame of physical size around an image whose own pixel size
\* differs from it.
C18_Witness ==
  /\ Framed
  /\ plugin.msg.useLogicalSize = Some(FALSE)
  /\ plugin.frame[1].width = plugin.msg.resolutionData[1].physical.width
  /\ plugin.image[1].width # plugin.frame[1].width

\* C19: with useLogicalSize true the frame made from a record whose logical
\* size is round(physical / scale) keeps the aspect ratio of physicalWidth /
\* physicalHeight up to rounding: each frame dimension is within one logical
\* pixel of the exact quotient physical / scale.
C19_LogicalFrameKeepsAspect ==
  (Framed /\ UseLogicalSize(plugin.msg)) =>
    LET data == plugin.msg.resolutionData[1]
        frame == plugin.frame[1]
        n == data.scale[1]
        d == data.scale[2]
        Abs(x) == IF x < 0 THEN -x ELSE x
    IN /\ Abs(frame.width * n - data.physical.width * d) <= n
       /\ Abs(frame.height * n - data.physical.height * d) <= n

\* C19 witness: a logical-size frame for a record whose scale is not a whole
\* number and whose logical width is a rounded value.
C19_Witness ==
  /\ Framed /\ UseLogicalSize(plugin.msg)
  /\ plugin.msg.resolutionData[1].scale[2] # 1
  /\ plugin.frame[1].width * plugin.msg.resolutionData[1].scale[1]
       # plugin.msg.resolutionData[1].physical.width * plugin.msg.resolutionData[1].scale[2]


\* C20 (as claimed): every resolution record returned for an iOS device,
\* whichever path built it and whatever its dimensions, has rotation 0 and
\* isLandscape false.
C20_IOSRecordIsPortrait ==
  \A r \in Reqs :
    (Done(r) /\ HasRecord(r) /\ IsIOS(r)) =>
      Rec(r).rotation = Whole(0) /\ ~Rec(r).isLandscape


\* C21 (as claimed): a command that never returns does not block its request
\* for ever; the request still gets a response, so a request waiting on a hung
\* command always has a next step (a timeout that fires).
C21_HungCommandIsAnswered ==
  \A r \in Reqs : pc[r] = "hung" => ENABLED Step(r)


\* C22: the connected-device slot always holds a whole, consistent value:
\* connected is true exactly when type is 'android' or 'ios' and id is set,
\* type 'ios' implies info is the stored device entry (the one id was taken
\* from), and a disconnected slot has type, id and info all null.
C22_SlotIsConsistent ==
  /\ DOMAIN connectedDevice = {"type", "connected", "id", "info"}
  /\ connectedDevice.connected \in BOOLEAN
  /\ connectedDevice.connected <=>
       ( /\ connectedDevice.type \in {Some("android"), Some("ios")}
         /\ connectedDevice.id # Null )
  /\ connectedDevice.type = Some("ios") =>
       /\ connectedDevice.info # Null
       /\ Some(connectedDevice.info[1].Identifier) = connectedDevice.id
       /\ connectedDevice.info[1].ConnectionType = "USB"
  /\ connectedDevice.type = Some("android") => connectedDevice.info = Null
  /\ ~connectedDevice.connected =>
       /\ connectedDevice.type = Null
       /\ connectedDevice.id = Null
       /\ connectedDevice.info = Null

\* C22 witness: the startup probe has replaced the slot by an iOS device and
\* a request has been answered since.
C22_Witness ==
  /\ server = "listening"
  /\ connectedDevice.type = Some("ios")
  /\ connectedDevice.info # Null
  /\ \E r \in Reqs : Done(r)


\* The plugin has finished handling a create-screenshot message.
Handled == plugin.step = "idle" /\ plugin.msg # NoMessage

\* C23: every create-screenshot message the plugin handles ends with exactly
\* one notification: the success notification only when the frame was added
\* to the canvas, an error notification otherwise; a message without
\* imageData or resolutionData gets the error notification and no node.
C23_OneNotificationPerMessage ==
  Handled =>
    /\ plugin.notified = 1
    /\ plugin.notification # Null
    /\ plugin.notification[1].error <=>
         ~(plugin.frame # Null /\ plugin.frame[1].placed)
    /\ ~plugin.notification[1].error =>
         /\ plugin.notification = Notify("Screenshot added to canvas!", FALSE)
         /\ plugin.selection = plugin.frame
         /\ Len(plugin.frame[1].children) = 1
    /\ (plugin.msg.imageData = Null \/ plugin.msg.resolutionData = Null) =>
         /\ plugin.notification = Notify("Error: Missing screenshot data", TRUE)
         /\ plugin.frame = Null
         /\ plugin.image = Null

\* C23 witness: a message that lacks resolutionData has been handled.
C23_Witness ==
  /\ Handled
  /\ plugin.msg.imageData # Null
  /\ plugin.msg.resolutionData = Null
  /\ plugin.notified = 1


\* C24: when the RSD address or port is missing, a /screenshot request for an
\* iOS device fails closed: it is answered with an error response carrying the
\* configuration instructions and the capture command is never invoked.
C24_UnconfiguredIOSFailsClosed ==
  \A r \in Reqs :
    ( /\ variant = "current"
      /\ pc[r] # "idle" /\ loc[r].route = "screenshot"
      /\ connectedDevice.type = Some("ios")
      /\ ~(Truthy(iosRSDConfig.address) /\ Truthy(iosRSDConfig.port)) )
    => /\ Done(r)
       /\ response[r].status >= 400
       /\ response[r].kind = "error"
       /\ response[r].message = Some(RSDInstructions)
       /\ response[r].image = 0
       /\ cmds[r] = <<>>

\* C24 witness: the address came from the environment, the port is missing,
\* and a /screenshot request has been answered.
C24_Witness ==
  \E r \in Reqs :
    /\ variant = "current" /\ Done(r) /\ loc[r].route = "screenshot"
    /\ connectedDevice.type = Some("ios")
    /\ Truthy(iosRSDConfig.address) /\ ~Truthy(iosRSDConfig.port)
    /\ response[r].status = 500

\* C25 (as claimed): once startup has finished with an iOS device detected,
\* the RSD address and port are both non-empty, whatever the environment
\* variables held and whatever the user typed.
C25_RSDCompleteAfterStartup ==
  ( /\ variant = "current" /\ server = "listening"
    /\ connectedDevice.type = Some("ios") )
  => /\ Truthy(iosRSDConfig.address)
     /\ Truthy(iosRSDConfig.port)

\* C26: the current server listens only after the startup probe (and, for
\* iOS, the prompt) has completed: whenever a request is being handled or has
\* been handled, the probe has run and the prompt is over.
C26_ListenAfterProbe ==
  /\ (variant = "current" /\ server = "listening") => probe[0] # NoProbe
  /\ \A r \in Reqs :
       (variant = "current" /\ pc[r] # "idle") =>
         /\ server = "listening"
         /\ probe[0] # NoProbe
         /\ bootCmds # <<>>

\* C26 witness: a request was answered after a probe that found an iOS device
\* and a prompt at which the user typed the address.
C26_Witness ==
  \E r \in Reqs :
    /\ variant = "current" /\ Done(r)
    /\ probe[0].ios = "usb" /\ connectedDevice.type = Some("ios")
    /\ iosRSDConfig = [address |-> Some("fd7b::1"), port |-> Some("")]


\* C27: after startup no step of any request (/health, /device, /resolution,
\* /screenshot, succeeding or failing) changes the connected-device slot.
C27_RequestsKeepDevice ==
  [][server = "listening" => connectedDevice' = connectedDevice]_vars

\* C27 witness: with a device stored at startup, a request has failed with a
\* 500 (its command did not succeed, as with a device unplugged since) and the
\* slot still says connected.
C27_Witness ==
  \E r \in Reqs :
    /\ variant = "current" /\ server = "listening"
    /\ Done(r) /\ response[r].status = 500
    /\ connectedDevice.connected
    /\ connectedDevice.type = Some("android")

\* C28 (as claimed): the rotation of every returned record is one of the
\* integers 0, 1, 2, 3, for every ROTATION_<digits> the rotation command
\* prints.
C28_RotationIsQuarterTurns ==
  \A r \in Reqs :
    (Done(r) /\ HasRecord(r)) =>
      Rec(r).rotation \in { Whole(n) : n \in 0 .. 3 }


\* C29 (as claimed): when two /screenshot requests overlap, each successful
\* response carries the image of its own capture: sharing the local temp
\* paths and the on-device path never makes a request return the other's
\* image.
C29_OverlapKeepsOwnImage ==
  \A r \in Reqs :
    ( /\ Done(r) /\ loc[r].route = "screenshot"
      /\ response[r].status = 200 )
    => response[r].image = r

\* C30: for the same device and the same raw signals, the resolution object
\* inside a successful /screenshot response is the body a successful
\* /resolution request returns for them.
C30_EmbeddedRecordIsResolutionBody ==
  \A r \in Reqs :
    ( /\ Done(r) /\ loc[r].route = "screenshot"
      /\ response[r].status = 200 /\ HasRecord(r) )
    => /\ IsAndroid(r) =>
            Rec(r) = ResolutionAndroid(loc[r].size[1][1], loc[r].size[1][2],
                                       loc[r].density[1],
                                       Rotation(TRUE, loc[r].rotation))
       /\ IsIOS(r) => Rec(r) = ResolutionIOS(Device(r).info[1].ProductType)
       /\ IsAndroid(r) \/ IsIOS(r)

\* C30 witness: /screenshot answered for a rotated Android device with a
\* record inside.
C30_Witness ==
  \E r \in Reqs :
    /\ AndroidRecordWith(r, {90})
    /\ loc[r].route = "screenshot"
    /\ loc[r].size = Some(<<1080, 1920>>)
    /\ Rec(r).physical = Dim(1920, 1080)

====
